---- MODULE Spec2Model ----
(***************************************************************************)
(* Model of the emotion detection API (src/app_optimized.py): the Flask    *)
(* handlers, the process-wide models_warmed_up flag, and the request       *)
(* pipeline of detect_emotion (validate, strip prefix, base64 decode,      *)
(* open image, DeepFace.analyze, aggregate, respond).  Flask runs with     *)
(* threaded=True, so every request is a thread of its own; the steps of    *)
(* different requests interleave.                                          *)
(*                                                                         *)
(* Units: bucket scores are kept in tenths (a raw score of 50 is 500), the *)
(* confidence in hundredths (0.5 is 50), times in steps of the request.    *)
(***************************************************************************)
EXTENDS Integers, Sequences, FiniteSets, TLC

VARIABLES models_warmed_up, pc, request, warmed, clock, warmup_tick,
          start_time, img_base64, img_bytes, opened, result, response

vars == <<models_warmed_up, pc, request, warmed, clock, warmup_tick,
          start_time, img_base64, img_bytes, opened, result, response>>

(* ------------------------------ bounds -------------------------------- *)

NRequests == 2
MaxLen == 5

Requests == 1..NRequests

(* ","  the data-URL separator, "A" any character of the base64 alphabet,  *)
(* "=" the pad character, "!" any character outside the alphabet.          *)
Chars == {"A", "!", "=", ","}
ScoreValues == {0, 1, 50, 100}

(* ------------------------- values and sentinels ------------------------ *)

Absent == 0 - 1
NotNum == 0 - 2
NoTime == 0 - 1
NoBytes == 0 - 1
NoConfidence == 0 - 1

Strings == UNION {[1..n -> Chars] : n \in 0..MaxLen}

Str(s) == [t |-> "str", s |-> s]
NoImage == [t |-> "absent", s |-> <<>>]
NullImage == [t |-> "null", s |-> <<>>]
NumberImage == [t |-> "number", s |-> <<>>]
ListImage == [t |-> "list", s |-> <<>>]

Body(kind, image) == [kind |-> kind, image |-> image]
NoRequest == Body("none", NoImage)
EmptyObject == Body("emptyobj", NoImage)
ImageBody(s) == Body("obj", Str(s))

(* JSON bodies that are not an object carrying an image string *)
OtherBodies ==
  {Body(k, NoImage) : k \in {"null", "false", "true", "zero", "number",
                              "emptystr", "str", "str_image", "emptylist",
                              "list", "list_image", "emptyobj", "obj"}}
  \cup {Body("obj", v) : v \in {NullImage, NumberImage, ListImage}}

AllBodies == OtherBodies \cup {ImageBody(s) : s \in Strings}

GoodBody == ImageBody(<<"A", "A", "A", "A">>)
RepBodies ==
  {EmptyObject, Body("true", NoImage), ImageBody(<<"A", "A">>), ImageBody(<<"!">>),
   GoodBody}

Scores(h, n, s, a, f) ==
  [kind |-> "scores", happy |-> h, neutral |-> n, sad |-> s, angry |-> a, fear |-> f]
NoKey == [kind |-> "nokey", happy |-> Absent, neutral |-> Absent, sad |-> Absent,
          angry |-> Absent, fear |-> Absent]
NotDict == [kind |-> "notdict", happy |-> Absent, neutral |-> Absent, sad |-> Absent,
            angry |-> Absent, fear |-> Absent]

Result(shape, emotions) == [shape |-> shape, emotions |-> emotions]
NoResult == Result("unset", NoKey)
Raises == Result("raise", NoKey)

RawValues == ScoreValues \cup {Absent, NotNum}
AllEmotions ==
  {NoKey, NotDict} \cup
  {Scores(h, n, s, a, f) : h \in RawValues, n \in RawValues, s \in RawValues,
                           a \in RawValues, f \in RawValues}
AllResults ==
  {Raises, Result("none", NoKey), Result("emptylist", NoKey)}
  \cup {Result(sh, e) : sh \in {"list", "dict"}, e \in AllEmotions}

RepResults ==
  {Raises, Result("none", NoKey), Result("emptylist", NoKey),
   Result("dict", NotDict), Result("dict", NoKey),
   Result("dict", Scores(50, 50, 0, NotNum, 0)),
   Result("list", Scores(0, 50, 50, Absent, Absent)),
   Result("dict", Scores(1, 0, 100, 0, 1))}
SmallResults ==
  {Raises, Result("emptylist", NoKey), Result("list", Scores(0, 50, 50, Absent, Absent))}

NoEmotions == [happy |-> Absent, neutral |-> Absent, sad |-> Absent]

Response(status, emotion, confidence, error, time, all) ==
  [status |-> status, emotion |-> emotion, confidence |-> confidence,
   error |-> error, processing_time_ms |-> time, all_emotions |-> all]
NoResponse == Response(0, "", NoConfidence, "", NoTime, NoEmotions)

(* ------------------- request validation (line 94) ---------------------- *)

(* `not request.json`: Python truth value of the parsed JSON body *)
Falsy(body) ==
  body.kind \in {"none", "null", "false", "zero", "emptystr", "emptylist", "emptyobj"}

(* `'image' in request.json` raises TypeError on a bool or a number *)
NotIterable(body) == body.kind \in {"true", "number"}

(* `'image' in request.json`: substring of a string, element of a list,   *)
(* key of an object                                                        *)
ContainsImage(body) ==
  \/ body.kind \in {"str_image", "list_image"}
  \/ body.kind = "obj" /\ body.image.t # "absent"

(* `request.json['image']` (line 99) raises TypeError on a string or list *)
Subscriptable(body) == body.kind = "obj"

(* ------------------- prefix stripping (lines 102-105) ------------------ *)

HasComma(s) == \E i \in 1..Len(s) : s[i] = ","

(* index of the first "," of s at or after position i; Len(s)+1 if none *)
RECURSIVE NextComma(_, _)
NextComma(s, i) ==
  IF i > Len(s) THEN Len(s) + 1
  ELSE IF s[i] = "," THEN i
  ELSE NextComma(s, i + 1)

(* img_data_url.split(',')[1]: the piece between the first and the second  *)
(* comma (to the end of the string when there is no second comma)          *)
SplitSecond(s) ==
  LET c1 == NextComma(s, 1)
      c2 == NextComma(s, c1 + 1)
  IN SubSeq(s, c1 + 1, c2 - 1)

StripPrefix(s) == IF HasComma(s) THEN SplitSecond(s) ELSE s

(* `',' in img_data_url` raises TypeError on None or a number *)
CommaTestRaises(v) == v.t \in {"null", "number"}

(* ----------------- base64.b64decode (line 108), lenient ---------------- *)

(* binascii.a2b_base64 without strict mode, as b64decode(s) calls it:      *)
(* characters outside the alphabet are skipped; a pad is skipped unless    *)
(* two or more characters of the quad were read; enough pads to fill the   *)
(* quad end the decoding, whatever follows; input ending inside a quad is  *)
(* an error.  Gives the number of decoded bytes, or NoBytes on error.      *)
RECURSIVE B64Scan(_, _, _, _, _)
B64Scan(s, i, quad, pads, out) ==
  IF i > Len(s) THEN (IF quad # 0 THEN NoBytes ELSE out)
  ELSE IF s[i] = "=" THEN
         IF quad >= 2
           THEN IF quad + pads + 1 >= 4 THEN out
                ELSE B64Scan(s, i + 1, quad, pads + 1, out)
           ELSE B64Scan(s, i + 1, quad, pads, out)
  ELSE IF s[i] # "A" THEN B64Scan(s, i + 1, quad, pads, out)
  ELSE IF quad = 0 THEN B64Scan(s, i + 1, 1, 0, out)
  ELSE IF quad = 3 THEN B64Scan(s, i + 1, 0, 0, out + 1)
  ELSE B64Scan(s, i + 1, quad + 1, 0, out + 1)

(* b64decode of the stripped value; a list raises TypeError, caught by the *)
(* same except clause as a decoding error                                  *)
B64Decode(v) == IF v.t = "str" THEN B64Scan(v.s, 1, 0, 0, 0) ELSE NoBytes

(* ---------------- normalisation and aggregation (136-155) -------------- *)

(* emotions.get(k, 0) *)
Get(x) == IF x = Absent THEN 0 ELSE x

(* the exception lines 137-150 raise on this result, "" if none *)
AggregateError(res) ==
  IF res.shape = "emptylist" THEN "IndexError"
  ELSE IF res.shape = "none" THEN "AttributeError"
  ELSE IF res.emotions.kind = "notdict" THEN "AttributeError"
  ELSE IF \E x \in {res.emotions.happy, res.emotions.neutral, res.emotions.sad,
                    res.emotions.angry, res.emotions.fear} : x = NotNum
       THEN "TypeError"
  ELSE ""

(* emotion_mapping (lines 143-151), in tenths *)
EmotionMapping(e) ==
  [happy |-> 10 * Get(e.happy),
   neutral |-> 10 * Get(e.neutral),
   sad |-> 10 * Get(e.sad) + 5 * Get(e.angry) + 3 * Get(e.fear)]

MappingKeys == <<"happy", "neutral", "sad">>

(* max(emotion_mapping, key=emotion_mapping.get): scan the keys in         *)
(* insertion order, keep a key only when its value is strictly larger      *)
RECURSIVE MaxKey(_, _, _)
MaxKey(m, i, best) ==
  IF i > Len(MappingKeys) THEN best
  ELSE MaxKey(m, i + 1, IF m[MappingKeys[i]] > m[best] THEN MappingKeys[i] ELSE best)

(* mutant of Dominant: the last maximum wins a tie *)
RECURSIVE MaxKeyLast(_, _, _)
MaxKeyLast(m, i, best) ==
  IF i > Len(MappingKeys) THEN best
  ELSE MaxKeyLast(m, i + 1, IF m[MappingKeys[i]] >= m[best] THEN MappingKeys[i] ELSE best)

DominantLast(m) == MaxKeyLast(m, 2, MappingKeys[1])

Dominant(m) == MaxKey(m, 2, MappingKeys[1])

(* round(v / 100, 2), in hundredths, v in tenths.  A value exactly half    *)
(* way goes up or down with the binary representation of the quotient      *)
(* (round(0.005, 2) is 0.01, round(1.005, 2) is 1.0): `up` is that bit.    *)
Round2(v, up) ==
  LET q == v \div 10
      rem == v % 10
  IN IF rem > 5 \/ (rem = 5 /\ up) THEN q + 1 ELSE q

(* ------------------------------ responses ------------------------------ *)

(* lines 95-96 *)
MissingImage == Response(400, "", NoConfidence, "Missing image data", NoTime, NoEmotions)

(* lines 109-111 *)
InvalidBase64 ==
  Response(400, "", NoConfidence, "Invalid base64 image data", NoTime, NoEmotions)

(* mutants of Degraded: the except clause answers 500; it drops the time *)
DegradedAs500(e, time) == Response(500, "neutral", 50, e, time, NoEmotions)
DegradedNoTime(e, time) == Response(200, "neutral", 50, e, NoTime, NoEmotions)

(* lines 171-181 *)
Degraded(e, time) == Response(200, "neutral", 50, e, time, NoEmotions)

(* lines 153-169 *)
Success(m, up, time) ==
  Response(200, Dominant(m), Round2(m[Dominant(m)], up), "", time, m)

(* ------------------------------- state --------------------------------- *)

(* models_warmed_up : the module-level flag (line 31)                      *)
(* pc[r]            : where request r stands in its handler                *)
(* request[r]       : request.json of request r                            *)
(* warmed[r]        : what warmup_models did for r: "no" (not called, or   *)
(*                    the flag was set), "calling", "ok", "failed"         *)
(* clock[r]         : steps r has taken since it entered the handler       *)
(* warmup_tick[r]   : clock[r] when r called warmup_models, NoTime before  *)
(* start_time[r]    : clock[r] when r read time.time() (line 90)           *)
(* img_base64[r], img_bytes[r], opened[r], result[r] : locals of r         *)
(* response[r]      : what r returned                                      *)

Init ==
  /\ models_warmed_up = FALSE
  /\ pc = [r \in Requests |-> "idle"]
  /\ request = [r \in Requests |-> NoRequest]
  /\ warmed = [r \in Requests |-> "no"]
  /\ clock = [r \in Requests |-> 0]
  /\ warmup_tick = [r \in Requests |-> NoTime]
  /\ start_time = [r \in Requests |-> NoTime]
  /\ img_base64 = [r \in Requests |-> NoImage]
  /\ img_bytes = [r \in Requests |-> NoBytes]
  /\ opened = [r \in Requests |-> "unset"]
  /\ result = [r \in Requests |-> NoResult]
  /\ response = [r \in Requests |-> NoResponse]

locals == <<img_base64, img_bytes, opened, result>>
timing == <<clock, warmup_tick, start_time>>

Tick(r) == clock' = [clock EXCEPT ![r] = @ + 1]

(* GET / (lines 53-64) *)
Home(r) ==
  /\ pc[r] = "idle"
  /\ pc' = [pc EXCEPT ![r] = "done"]
  /\ response' = [response EXCEPT ![r] =
                    Response(200, "", NoConfidence, "", NoTime, NoEmotions)]
  /\ UNCHANGED <<models_warmed_up, request, warmed, timing, locals>>

(* GET /health (lines 66-73) *)
HealthCheck(r) ==
  /\ pc[r] = "idle"
  /\ pc' = [pc EXCEPT ![r] = "done"]
  /\ response' = [response EXCEPT ![r] =
                    Response(200, "", NoConfidence, "", NoTime, NoEmotions)]
  /\ UNCHANGED <<models_warmed_up, request, warmed, timing, locals>>

(* OPTIONS /detect-emotion (lines 84-85) *)
Preflight(r) ==
  /\ pc[r] = "idle"
  /\ pc' = [pc EXCEPT ![r] = "done"]
  /\ response' = [response EXCEPT ![r] =
                    Response(204, "", NoConfidence, "", NoTime, NoEmotions)]
  /\ UNCHANGED <<models_warmed_up, request, warmed, timing, locals>>

(* POST /detect-emotion arrives with a body of `bodies`; the handler's     *)
(* first statement after the method test is the call of warmup_models      *)
(* (line 88)                                                               *)
Enter(r, bodies) ==
  /\ pc[r] = "idle"
  /\ \E b \in bodies : request' = [request EXCEPT ![r] = b]
  /\ pc' = [pc EXCEPT ![r] = "warmup"]
  /\ UNCHANGED <<models_warmed_up, warmed, timing, locals, response>>

(* mutant of WarmupCheck: the flag is not consulted *)
WarmupCheckAlways(r) ==
  /\ pc[r] = "warmup"
  /\ warmup_tick' = [warmup_tick EXCEPT ![r] = clock[r]]
  /\ clock' = [clock EXCEPT ![r] = @ + 1]
  /\ pc' = [pc EXCEPT ![r] = "warming"]
  /\ warmed' = [warmed EXCEPT ![r] = "calling"]
  /\ UNCHANGED <<models_warmed_up, request, start_time, locals, response>>

(* mutant of WarmupCheck: the body is validated first, and a request       *)
(* without an image never calls warmup_models                              *)
WarmupCheckAfterValidation(r) ==
  LET rejected == Falsy(request[r]) \/ (~NotIterable(request[r]) /\ ~ContainsImage(request[r]))
  IN /\ pc[r] = "warmup"
     /\ warmup_tick' = [warmup_tick EXCEPT ![r] = IF rejected THEN @ ELSE clock[r]]
     /\ clock' = [clock EXCEPT ![r] = @ + 1]
     /\ pc' = [pc EXCEPT ![r] =
                 IF rejected \/ models_warmed_up THEN "start" ELSE "warming"]
     /\ warmed' = [warmed EXCEPT ![r] =
                     IF rejected \/ models_warmed_up THEN "no" ELSE "calling"]
     /\ UNCHANGED <<models_warmed_up, request, start_time, locals, response>>

(* warmup_models, lines 35-47: read the flag; when it is unset, start the  *)
(* dummy DeepFace.analyze.  No lock is held, so other requests run between *)
(* this read and the write of WarmupReturn.                                *)
WarmupCheck(r) ==
  /\ pc[r] = "warmup"
  /\ warmup_tick' = [warmup_tick EXCEPT ![r] = clock[r]]
  /\ Tick(r)
  /\ pc' = [pc EXCEPT ![r] = IF models_warmed_up THEN "start" ELSE "warming"]
  /\ warmed' = [warmed EXCEPT ![r] = IF models_warmed_up THEN "no" ELSE "calling"]
  /\ UNCHANGED <<models_warmed_up, request, start_time, locals, response>>

(* mutant of WarmupReturn: a failed warmup clears the flag *)
WarmupReturnResets(r) ==
  /\ pc[r] = "warming"
  /\ \E ok \in BOOLEAN :
       /\ models_warmed_up' = ok
       /\ warmed' = [warmed EXCEPT ![r] = IF ok THEN "ok" ELSE "failed"]
  /\ clock' = [clock EXCEPT ![r] = @ + 1]
  /\ pc' = [pc EXCEPT ![r] = "start"]
  /\ UNCHANGED <<request, warmup_tick, start_time, locals, response>>

(* mutant of WarmupReturn: the exception of a failed warmup is not caught  *)
(* and ends the request with a 500                                         *)
WarmupReturnPropagates(r) ==
  /\ pc[r] = "warming"
  /\ \E ok \in BOOLEAN :
       /\ models_warmed_up' = (IF ok THEN TRUE ELSE models_warmed_up)
       /\ warmed' = [warmed EXCEPT ![r] = IF ok THEN "ok" ELSE "failed"]
       /\ pc' = [pc EXCEPT ![r] = IF ok THEN "start" ELSE "done"]
       /\ response' = [response EXCEPT ![r] =
                         IF ok THEN @
                         ELSE Response(500, "", NoConfidence, "Internal server error",
                                       NoTime, NoEmotions)]
  /\ clock' = [clock EXCEPT ![r] = @ + 1]
  /\ UNCHANGED <<request, warmup_tick, start_time, locals>>

(* warmup_models, lines 41-51: the dummy inference returns (the flag is    *)
(* set, line 48) or raises (the exception is logged, the flag is left)     *)
WarmupReturn(r) ==
  /\ pc[r] = "warming"
  /\ \E ok \in BOOLEAN :
       /\ models_warmed_up' = (IF ok THEN TRUE ELSE models_warmed_up)
       /\ warmed' = [warmed EXCEPT ![r] = IF ok THEN "ok" ELSE "failed"]
  /\ Tick(r)
  /\ pc' = [pc EXCEPT ![r] = "start"]
  /\ UNCHANGED <<request, warmup_tick, start_time, locals, response>>

(* lines 90-96: start the timer, then validate the body.  A TypeError of   *)
(* the `in` test or of request.json['image'] (line 99) lands in the except *)
(* clause of line 171.                                                     *)
Validate(r) ==
  LET b == request[r]
      now == clock[r] + 1
      verdict == IF Falsy(b) THEN "missing"
                 ELSE IF NotIterable(b) THEN "TypeError"
                 ELSE IF ~ContainsImage(b) THEN "missing"
                 ELSE IF ~Subscriptable(b) THEN "TypeError"
                 ELSE "ok"
  IN /\ pc[r] = "start"
     /\ start_time' = [start_time EXCEPT ![r] = clock[r]]
     /\ Tick(r)
     /\ pc' = [pc EXCEPT ![r] = IF verdict = "ok" THEN "strip" ELSE "done"]
     /\ response' = [response EXCEPT ![r] =
                       IF verdict = "missing" THEN MissingImage
                       ELSE IF verdict = "TypeError"
                         THEN Degraded("TypeError", now - clock[r])
                       ELSE @]
     /\ UNCHANGED <<models_warmed_up, request, warmed, warmup_tick, locals>>

(* lines 99-111: strip the data-URL prefix and decode the payload *)
Decode(r) ==
  LET v == request[r].image
      now == clock[r] + 1
      raises == CommaTestRaises(v)
      payload == IF v.t = "str" THEN Str(StripPrefix(v.s)) ELSE v
      bytes == B64Decode(payload)
  IN /\ pc[r] = "strip"
     /\ Tick(r)
     /\ img_base64' = [img_base64 EXCEPT ![r] = IF raises THEN @ ELSE payload]
     /\ img_bytes' = [img_bytes EXCEPT ![r] = IF raises THEN @ ELSE bytes]
     /\ pc' = [pc EXCEPT ![r] = IF raises \/ bytes = NoBytes THEN "done" ELSE "open"]
     /\ response' = [response EXCEPT ![r] =
                       IF raises THEN Degraded("TypeError", now - start_time[r])
                       ELSE IF bytes = NoBytes THEN InvalidBase64
                       ELSE @]
     /\ UNCHANGED <<models_warmed_up, request, warmed, warmup_tick, start_time,
                    opened, result>>

(* lines 114-125: Image.open, convert, thumbnail, np.array.  No image can  *)
(* be read from zero bytes; otherwise the bytes may or may not be one.     *)
OpenImage(r) ==
  /\ pc[r] = "open"
  /\ \E ok \in (IF img_bytes[r] = 0 THEN {FALSE} ELSE BOOLEAN) :
       /\ opened' = [opened EXCEPT ![r] = IF ok THEN "ok" ELSE "raise"]
       /\ pc' = [pc EXCEPT ![r] = IF ok THEN "analyze" ELSE "done"]
       /\ response' = [response EXCEPT ![r] =
                         IF ok THEN @
                         ELSE Degraded("UnidentifiedImageError",
                                       clock[r] + 1 - start_time[r])]
  /\ Tick(r)
  /\ UNCHANGED <<models_warmed_up, request, warmed, warmup_tick, start_time,
                 img_base64, img_bytes, result>>

(* lines 128-134: DeepFace.analyze returns one of `results`, or raises *)
Analyze(r, results) ==
  /\ pc[r] = "analyze"
  /\ \E res \in results :
       /\ result' = [result EXCEPT ![r] = res]
       /\ pc' = [pc EXCEPT ![r] = IF res = Raises THEN "done" ELSE "aggregate"]
       /\ response' = [response EXCEPT ![r] =
                         IF res = Raises
                           THEN Degraded("ValueError", clock[r] + 1 - start_time[r])
                         ELSE @]
  /\ Tick(r)
  /\ UNCHANGED <<models_warmed_up, request, warmed, warmup_tick, start_time,
                 img_base64, img_bytes, opened>>

(* lines 136-169: take the first face, bucket the scores, pick the         *)
(* dominant bucket, respond                                                *)
Aggregate(r) ==
  LET res == result[r]
      e == AggregateError(res)
      time == clock[r] + 1 - start_time[r]
  IN /\ pc[r] = "aggregate"
     /\ \E up \in BOOLEAN :
          response' = [response EXCEPT ![r] =
                         IF e # "" THEN Degraded(e, time)
                         ELSE Success(EmotionMapping(res.emotions), up, time)]
     /\ Tick(r)
     /\ pc' = [pc EXCEPT ![r] = "done"]
     /\ UNCHANGED <<models_warmed_up, request, warmed, warmup_tick, start_time,
                    locals>>

(* the steps of a request once it is in the handler *)
Step(r) ==
  \/ WarmupCheck(r)
  \/ WarmupReturn(r)
  \/ Validate(r)
  \/ Decode(r)
  \/ OpenImage(r)
  \/ Aggregate(r)

(* ---------------------------- specifications --------------------------- *)

(* the threaded server: requests interleave freely *)
Next ==
  \E r \in Requests :
    \/ Home(r)
    \/ HealthCheck(r)
    \/ Preflight(r)
    \/ Enter(r, RepBodies)
    \/ Step(r)
    \/ Analyze(r, SmallResults)

Spec == Init /\ [][Next]_vars

(* one request at a time: a request enters only when none is in flight *)
NoneInFlight == \A r \in Requests : pc[r] \in {"idle", "done"}

SeqNext ==
  \E r \in Requests :
    \/ NoneInFlight /\ Enter(r, RepBodies)
    \/ Step(r)
    \/ Analyze(r, SmallResults)

SeqSpec == Init /\ [][SeqNext]_vars

(* a single request, every body *)
DecodeNext ==
  \/ Enter(1, AllBodies)
  \/ Step(1)
  \/ Analyze(1, RepResults)

DecodeSpec == Init /\ [][DecodeNext]_vars

(* a single request with a decodable image, every model result *)
ScoreNext ==
  \/ Enter(1, {GoodBody})
  \/ Step(1)
  \/ Analyze(1, AllResults)

ScoreSpec == Init /\ [][ScoreNext]_vars

(* ------------------------------ properties ----------------------------- *)

Done(r) == pc[r] = "done"
(* r was a POST /detect-emotion *)
Posted(r) == request[r] # NoRequest
Decoded(r) == img_bytes[r] # NoBytes

(* something failed after the payload of r was decoded *)
FailedAfterDecode(r) ==
  \/ opened[r] = "raise"
  \/ result[r] = Raises
  \/ (result[r] # NoResult /\ AggregateError(result[r]) # "")

(* C1: a request whose payload was decoded ends with status 200 whatever   *)
(* fails afterwards (image parsing, the model call, an empty or malformed  *)
(* result, aggregation), and a failure gives emotion neutral, confidence   *)
(* 0.5, an error message and a processing time.                            *)
C1_DegradedAfterDecode ==
  \A r \in Requests :
    (Done(r) /\ Decoded(r)) =>
      /\ response[r].status = 200
      /\ FailedAfterDecode(r) =>
           /\ response[r].emotion = "neutral"
           /\ response[r].confidence = 50
           /\ response[r].error # ""
           /\ response[r].processing_time_ms >= 0

C1_Witness ==
  \E r \in Requests :
    /\ Done(r) /\ Decoded(r) /\ img_bytes[r] > 0
    /\ result[r].shape = "emptylist"
    /\ response[r].status = 200 /\ response[r].error = "IndexError"

(* the body carries no image field: it is no JSON object, or an object     *)
(* without the key                                                         *)
NoImageField(b) == b.kind # "obj" \/ b.image.t = "absent"

(* C2: every request whose body has no image field is answered 400         *)
(* "Missing image data", never 200.                                        *)
C2_MissingImageIs400 ==
  \A r \in Requests :
    (Done(r) /\ Posted(r) /\ NoImageField(request[r])) => response[r] = MissingImage

(* strictly valid base64: only alphabet characters, then at most two pads, *)
(* a multiple of four characters in all                                    *)
StrictBase64(s) ==
  /\ Len(s) % 4 = 0
  /\ \E k \in 0..2 :
       /\ k <= Len(s)
       /\ \A i \in 1..Len(s) : s[i] = (IF i > Len(s) - k THEN "=" ELSE "A")

(* C3: a payload that is not valid base64 (a character outside the         *)
(* alphabet, wrong padding) is answered 400 "Invalid base64 image data"    *)
(* and never reaches image parsing.                                        *)
C3_InvalidBase64Is400 ==
  \A r \in Requests :
    (img_base64[r].t = "str" /\ ~StrictBase64(img_base64[r].s)) =>
      /\ pc[r] = "done"
      /\ response[r] = InvalidBase64
      /\ opened[r] = "unset"

Invoked(r) == warmed[r] # "no"
Succeeded == {r \in Requests : warmed[r] = "ok"}

(* C4 as stated: the flag is set by the first warmup attempt, failed or    *)
(* not, so in a sequential run at most one request invokes the dummy       *)
(* inference.                                                              *)
C4_AtMostOneAttempt ==
  /\ (\E r \in Requests : warmed[r] \in {"ok", "failed"}) => models_warmed_up
  /\ Cardinality({r \in Requests : Invoked(r)}) <= 1

(* C4 amended: in a sequential run the flag is set exactly when a warmup   *)
(* inference has succeeded; at most one succeeds; and once one has         *)
(* succeeded no request starts another.                                    *)
C4_RetryUntilSuccess ==
  /\ [](models_warmed_up <=> Succeeded # {})
  /\ [](Cardinality(Succeeded) <= 1)
  /\ [][Succeeded # {} =>
          \A r \in Requests : warmed'[r] = "calling" => warmed[r] = "calling"]_vars

C4_Witness ==
  \E r1, r2 \in Requests :
    /\ Done(r1) /\ warmed[r1] = "failed"
    /\ Done(r2) /\ warmed[r2] = "ok"

(* C5: the flag starts false and never goes from true back to false.       *)
C5_FlagOneWay ==
  /\ models_warmed_up = FALSE
  /\ [][models_warmed_up => models_warmed_up']_vars

C5_Witness ==
  /\ models_warmed_up
  /\ \E r1, r2 \in Requests : warmed[r1] = "ok" /\ warmed[r2] = "failed" /\ Done(r2)

(* the response of a request run on its own, from its body and from what   *)
(* Image.open and DeepFace.analyze did for it: the handler's statements in *)
(* program order, warmup left out                                          *)
SoloStatus(b, op, res) ==
  IF Falsy(b) THEN 400
  ELSE IF NotIterable(b) THEN 200
  ELSE IF ~ContainsImage(b) THEN 400
  ELSE IF ~Subscriptable(b) THEN 200
  ELSE IF CommaTestRaises(b.image) THEN 200
  ELSE IF B64Decode(IF b.image.t = "str" THEN Str(StripPrefix(b.image.s)) ELSE b.image)
            = NoBytes THEN 400
  ELSE 200

SoloError(b, op, res) ==
  IF Falsy(b) THEN "Missing image data"
  ELSE IF NotIterable(b) THEN "TypeError"
  ELSE IF ~ContainsImage(b) THEN "Missing image data"
  ELSE IF ~Subscriptable(b) THEN "TypeError"
  ELSE IF CommaTestRaises(b.image) THEN "TypeError"
  ELSE IF B64Decode(IF b.image.t = "str" THEN Str(StripPrefix(b.image.s)) ELSE b.image)
            = NoBytes THEN "Invalid base64 image data"
  ELSE IF op = "raise" THEN "UnidentifiedImageError"
  ELSE IF res = Raises THEN "ValueError"
  ELSE AggregateError(res)

SoloSucceeds(b, op, res) == SoloStatus(b, op, res) = 200 /\ SoloError(b, op, res) = ""

SameAsAlone(r) ==
  LET b == request[r]
      op == opened[r]
      res == result[r]
      m == EmotionMapping(res.emotions)
      top == IF m.happy >= m.neutral /\ m.happy >= m.sad THEN "happy"
             ELSE IF m.neutral >= m.sad THEN "neutral" ELSE "sad"
  IN /\ response[r].status = SoloStatus(b, op, res)
     /\ response[r].error = SoloError(b, op, res)
     /\ IF SoloSucceeds(b, op, res)
          THEN /\ response[r].emotion = top
               /\ response[r].all_emotions = m
               /\ response[r].confidence \in {m[top] \div 10, m[top] \div 10 + 1}
        ELSE IF SoloStatus(b, op, res) = 200
          THEN /\ response[r].emotion = "neutral"
               /\ response[r].confidence = 50
               /\ response[r].all_emotions = NoEmotions
        ELSE /\ response[r].emotion = ""
             /\ response[r].confidence = NoConfidence
             /\ response[r].all_emotions = NoEmotions

(* C6: under every interleaving, whatever the warmup attempts do, a        *)
(* request in flight can always take its next step, and its response       *)
(* (status, emotion, confidence, all_emotions, error) is the one it gets   *)
(* when run alone.                                                         *)
C6_RaceBenign ==
  \A r \in Requests :
    /\ (pc[r] \notin {"idle", "done"}) => ENABLED (Step(r) \/ Analyze(r, SmallResults))
    /\ (Done(r) /\ Posted(r)) => SameAsAlone(r)

C6_Witness ==
  \E r1, r2 \in Requests :
    /\ r1 # r2 /\ Done(r1) /\ Done(r2)
    /\ warmed[r1] = "ok" /\ warmed[r2] = "failed"
    /\ warmup_tick[r1] = 0 /\ warmup_tick[r2] = 0
    /\ response[r2].status = 200 /\ response[r2].error = ""
    /\ response[r1].status = 400

Succeeded200(r) ==
  Done(r) /\ Posted(r) /\ response[r].status = 200 /\ response[r].error = ""

RefBuckets(e) ==
  [happy |-> 10 * Get(e.happy),
   neutral |-> 10 * Get(e.neutral),
   sad |-> 10 * Get(e.sad) + 5 * Get(e.angry) + 3 * Get(e.fear)]

RefDominant(m) ==
  IF m.happy >= m.neutral /\ m.happy >= m.sad THEN "happy"
  ELSE IF m.neutral >= m.sad THEN "neutral"
  ELSE "sad"

(* C7 as stated: the success response carries the reference buckets, the   *)
(* first maximal bucket in the order happy, neutral, sad, and the dominant *)
(* value divided by 100 as confidence, above 1.0 whenever the sad bucket   *)
(* is above 100.                                                           *)
C7_ExactConfidence ==
  \A r \in Requests :
    Succeeded200(r) =>
      LET m == RefBuckets(result[r].emotions)
      IN /\ response[r].all_emotions = m
         /\ response[r].emotion = RefDominant(m)
         /\ 10 * response[r].confidence = m[RefDominant(m)]
         /\ m.sad > 1000 => response[r].confidence > 100

(* C7 amended: the same buckets and dominant bucket; the confidence is the *)
(* dominant value divided by 100 and rounded to two decimals, not clamped: *)
(* above 1.0 when the dominant value is above 100.5, not above 1.0 when it *)
(* is below 100.5.                                                         *)
C7_RoundedConfidence ==
  \A r \in Requests :
    Succeeded200(r) =>
      LET m == RefBuckets(result[r].emotions)
          v == m[RefDominant(m)]
          c == response[r].confidence
      IN /\ response[r].all_emotions = m
         /\ response[r].emotion = RefDominant(m)
         /\ 10 * c - v <= 5 /\ v - 10 * c <= 5
         /\ v > 1005 => c > 100
         /\ v < 1005 => c <= 100

C7_Witness ==
  \E r \in Requests :
    /\ Succeeded200(r)
    /\ result[r].emotions.neutral = 100 /\ result[r].emotions.sad = 100
    /\ result[r].emotions.fear = 1 /\ result[r].emotions.happy = Absent
    /\ response[r].emotion = "sad"
    /\ response[r].all_emotions.sad = 1003
    /\ response[r].confidence = 100

(* C8 as stated: every response to a POST carries processing_time_ms, and  *)
(* the timer is started at request entry, before warmup runs.              *)
C8_LatencyOnEveryPath ==
  \A r \in Requests :
    (Done(r) /\ Posted(r)) =>
      /\ response[r].processing_time_ms # NoTime
      /\ start_time[r] <= warmup_tick[r]

(* C8 amended: a 200 response (success or degraded) carries the time from  *)
(* the start of the timer to the response, a 400 response carries none,    *)
(* and the timer is started after warmup_models has returned.              *)
C8_LatencyOn200Only ==
  \A r \in Requests :
    (Done(r) /\ Posted(r)) =>
      /\ response[r].status \in {200, 400}
      /\ response[r].status = 200 =>
           (response[r].processing_time_ms = clock[r] - start_time[r]
              /\ response[r].processing_time_ms > 0)
      /\ response[r].status = 400 => response[r].processing_time_ms = NoTime
      /\ warmup_tick[r] # NoTime /\ start_time[r] > warmup_tick[r]
      /\ Invoked(r) => start_time[r] > warmup_tick[r] + 1

C8_Witness ==
  \E r1, r2 \in Requests :
    /\ Done(r1) /\ response[r1] = InvalidBase64 /\ warmed[r1] = "failed"
    /\ Done(r2) /\ response[r2].status = 200 /\ response[r2].error = "ValueError"
    /\ response[r2].processing_time_ms = 4

(* the payload the spec describes: everything after the first comma *)
AfterFirstComma(s) == SubSeq(s, NextComma(s, 1) + 1, Len(s))

(* C9: the payload handed to the decoder is everything after the first     *)
(* comma of the image string, or the whole string when it has no comma.    *)
C9_PayloadAfterFirstComma ==
  \A r \in Requests :
    (request[r].image.t = "str" /\ img_base64[r].t = "str") =>
      img_base64[r].s = (IF HasComma(request[r].image.s)
                           THEN AfterFirstComma(request[r].image.s)
                           ELSE request[r].image.s)

(* C10 as stated: a request rejected with MissingImage has not invoked the *)
(* warmup inference.                                                       *)
C10_MissingImageSkipsWarmup ==
  \A r \in Requests :
    (Done(r) /\ response[r] = MissingImage) => (~Invoked(r) /\ warmup_tick[r] = NoTime)

(* C10 amended: warmup_models is called before the body is looked at; a    *)
(* request rejected with MissingImage has called it before its timer was   *)
(* started, and when its dummy inference succeeded the flag is set.        *)
C10_WarmupBeforeValidation ==
  \A r \in Requests :
    (Done(r) /\ response[r] = MissingImage) =>
      /\ warmup_tick[r] # NoTime
      /\ warmup_tick[r] < start_time[r]
      /\ warmed[r] = "ok" => models_warmed_up

C10_Witness ==
  \E r \in Requests :
    /\ Done(r) /\ response[r] = MissingImage
    /\ warmed[r] = "ok" /\ models_warmed_up

====
